---- MODULE Spec2Model ----
(***************************************************************************)
(* WorkTrack: the due-date reminder scheduler (backend/utils) and the task *)
(* controller operations that touch the fields the scheduler reads, plus   *)
(* the streak computation of the productivity statistics.                  *)
(*                                                                         *)
(* Time is an integer clock.  One clock unit stands for the smallest step  *)
(* of the JavaScript Date (a millisecond); the 24 hour window is scaled to *)
(* TwentyFourHours units, a day to DayLen units.  All comparisons of the   *)
(* source are integer comparisons and are kept as they are.                *)
(***************************************************************************)
EXTENDS Integers, Sequences, FiniteSets, TLC

\* ---- bounds of the model ------------------------------------------------
NumTasks == 2
NumUsers == 2
NumScans == 2
MaxTime == 1
MaxRuns == 2
MaxOps == 2
TwentyFourHours == 2
MaxItems == 2
DayLen == 2
HistoryDays == 3
MaxStatTasks == 3
LongDay == 400
MaxScoreTasks == 2
MaxMembers == 3
MaxStatCalls == 1
ScanInterval == 2
LastHour == 3
MaxCtlItems == 3
TieItems == 8

TaskIds == 1..NumTasks
Users == 1..NumUsers
ScanIds == 1..NumScans
\* an optional Date is a sequence of length at most one
NoDate == <<>>
Date(d) == <<d>>
OptDates(S) == {NoDate} \cup {Date(d) : d \in S}
DueDates == 1..(MaxTime + TwentyFourHours)
Statuses == {"Pending", "In Progress", "Completed"}
Callers == {"timer", "http"}

VARIABLES
    now,        \* the wall clock read by new Date()
    tasks,      \* the Task collection: id -> document
    email,      \* the User collection: id -> has an email address
    scans,      \* the invocations of checkDueDateReminders in flight
    tries,      \* Notification.create calls made by scans, per task and user
    notifs,     \* 'reminder' notifications created by scans, per task and user
    mails,      \* reminder emails of scans that sendMail delivered, per task and user
    manual,     \* notifications created by sendTaskReminder, per task and user
    manualMails, \* emails of sendTaskReminder that sendMail delivered, per task and user
    proc,       \* the server process: schedule handle, startup timer, liveness
    result,     \* the value returned by the last finished checkDueDateReminders
    http,       \* the response of the last controller call
    budget,     \* number of scan starts and controller calls so far
    allTasks,   \* getProductivityStats: the documents Task.find({ assignedTo }) returned
    stats,      \* getProductivityStats: the statistics of the response
    orgTasks,   \* team statistics: per member of User.find, the documents of Task.find
    team        \* team statistics: the response

statsVars == <<allTasks, stats, orgTasks, team>>

vars == <<now, tasks, email, scans, tries, notifs, mails, manual, manualMails, proc, result, http, budget,
         statsVars>>

\* ---- helpers --------------------------------------------------------------
HasDue(t) == t.dueDate # NoDate

\* faulty variant: the query without the reminderSent condition
EligibleAgain(t, n) ==
    /\ t.status # "Completed"
    /\ HasDue(t)
    /\ t.dueDate[1] > n
    /\ t.dueDate[1] <= n + TwentyFourHours

\* faulty variant: the query with $lt in place of $lte
EligibleBefore(t, n) ==
    /\ t.status # "Completed"
    /\ HasDue(t)
    /\ t.dueDate[1] > n
    /\ t.dueDate[1] < n + TwentyFourHours
    /\ t.reminderSent # TRUE

\* the query of Task.find in checkDueDateReminders, evaluated on one document
Eligible(t, n) ==
    /\ t.status # "Completed"
    /\ HasDue(t)
    /\ t.dueDate[1] > n
    /\ t.dueDate[1] <= n + TwentyFourHours
    /\ t.reminderSent # TRUE

RECURSIVE FindFrom(_, _, _)
FindFrom(tk, n, i) ==
    IF i > NumTasks THEN <<>>
    ELSE IF Eligible(tk[i], n)
         THEN <<[id |-> i, assignedTo |-> tk[i].assignedTo]>> \o FindFrom(tk, n, i + 1)
         ELSE FindFrom(tk, n, i + 1)

\* Task.find(...).populate('assignedTo'): the eligible documents, in id order
TasksNeedingReminders(tk, n) == FindFrom(tk, n, 1)

Outcomes == {"ok", "mailFail", "notifFail"}

IdleScan == [pc |-> "idle", queue |-> <<>>, seenSent |-> {},
             caller |-> "timer", found |-> 0]

\* an invocation runs in the lowest free slot
FreeSlot(s) == scans[s].pc = "idle" /\ \A r \in ScanIds : r < s => scans[r].pc # "idle"

NoStats == [pc |-> "idle", period |-> 0, checkDate |-> 0, currentStreak |-> 0,
            onTimeRate |-> 0, checklistRate |-> 0, overdueTasks |-> 0,
            tasksCompleted |-> 0, productivityScore |-> 0, weeklyTrend |-> <<>>]

NoTeam == [via |-> "none", period |-> 0, teamSize |-> 0, members |-> <<>>,
           teamAverage |-> [avgProductivityScore |-> 0, totalCompleted |-> 0,
                            avgOnTimeRate |-> 0, totalOverdue |-> 0]]

\* the task table, the users and the scheduler after server start
InitSched ==
    /\ tasks \in [TaskIds -> [status : {"Pending"}, dueDate : OptDates(DueDates),
                              assignedTo : SUBSET Users,
                              todoChecklist : {<<>>}, progress : {0},
                              reminderSent : {FALSE}, reminderSentAt : {NoDate},
                              activityLog : {<<>>}]]
    /\ email \in {e \in [Users -> BOOLEAN] : e[1]}
    /\ scans = [s \in ScanIds |-> IdleScan]
    /\ tries = [t \in TaskIds |-> [u \in Users |-> 0]]
    /\ notifs = [t \in TaskIds |-> [u \in Users |-> 0]]
    /\ mails = [t \in TaskIds |-> [u \in Users |-> 0]]
    /\ manual = [t \in TaskIds |-> [u \in Users |-> 0]]
    /\ manualMails = [t \in TaskIds |-> [u \in Users |-> 0]]
    /\ proc = [alive |-> TRUE, scheduled |-> TRUE, startupPending |-> TRUE]
    /\ result = [success |-> TRUE, tasksProcessed |-> 0]
    /\ http = [code |-> "none", sentCount |-> 0]
    /\ budget = [runs |-> 0, ops |-> 0]

Init ==
    /\ now = 0
    /\ InitSched
    /\ allTasks = <<>>
    /\ stats = NoStats
    /\ orgTasks = <<>>
    /\ team = NoTeam

\* the clock advances
Tick ==
    /\ now < MaxTime
    /\ now' = now + 1
    /\ UNCHANGED <<statsVars, tasks, email, scans, tries, notifs, mails, manual, manualMails, proc, result, http,
                   budget>>

\* ---- checkDueDateReminders ------------------------------------------------

\* the result object of one assignee: { success: true } is returned whenever
\* Notification.create did not throw; the value sendDueDateReminder returns
\* ({ success: false } when sendMail rejects) is not looked at
Success(outcome) == outcome \in {"ok", "mailFail"}

\* faulty variant: the task counts only when every assignee succeeded
SuccessCountAll(results) ==
    IF \A u \in DOMAIN results : Success(results[u]) THEN Cardinality(DOMAIN results) ELSE 0

\* faulty variant: a task without recipients counts as delivered
SuccessCountVacuous(results) ==
    IF DOMAIN results = {} THEN 1 ELSE Cardinality({u \in DOMAIN results : Success(results[u])})

SuccessCount(results) == Cardinality({u \in DOMAIN results : Success(results[u])})

\* faulty variant: a sequential loop without the inner try/catch stops at the first
\* assignee whose Notification.create throws
AttemptedUntilFailure(rcpts, out) ==
    {u \in rcpts : \A v \in rcpts : v < u => out[v] # "notifFail"}

\* the assignees whose async callback runs to its end under Promise.all: each
\* callback has its own try/catch, so all of them
Attempted(rcpts, out) == rcpts

\* faulty variant: an updateMany that marks every task of the table
MarkEvery(tk, id, n) ==
    [t \in TaskIds |-> [tk[t] EXCEPT !.reminderSent = TRUE, !.reminderSentAt = Date(n)]]

\* Task.findByIdAndUpdate(task._id, { reminderSent: true, reminderSentAt: new Date() })
MarkReminderSent(tk, id, n) ==
    [tk EXCEPT ![id].reminderSent = TRUE, ![id].reminderSentAt = Date(n)]

\* faulty variant: tasksProcessed counts the tasks with a delivered reminder
ReturnDelivered(sc) ==
    [success |-> TRUE,
     tasksProcessed |-> Cardinality({t \in TaskIds : \E u \in Users : mails[t][u] > 0})]

\* return { success: true, tasksProcessed: tasksNeedingReminders.length }
ReturnSuccess(sc) == [success |-> TRUE, tasksProcessed |-> sc.found]

Response(code, n) == [code |-> code, sentCount |-> n]

\* triggerReminders awaits the scan and answers res.json({ message, result });
\* the cron callback and the startup timer only log the result
Reply(caller) == IF caller = "http" THEN Response("ok", 0) ELSE http

\* faulty variant: without the outer catch the rejection reaches the timer callback
\* unhandled and ends the process
Rethrow(s, caller, p) ==
    /\ scans' = [scans EXCEPT ![s] = IdleScan]
    /\ result' = [success |-> FALSE, tasksProcessed |-> 0]
    /\ http' = http
    /\ proc' = [p EXCEPT !.alive = FALSE, !.scheduled = FALSE]

\* the outer catch: log and return { success: false, error }; the caller
\* (cron callback, startup timer, controller) gets a value, not an exception
CatchFatal(s, caller, p) ==
    /\ scans' = [scans EXCEPT ![s] = IdleScan]
    /\ result' = [success |-> FALSE, tasksProcessed |-> 0]
    /\ http' = Reply(caller)
    /\ proc' = p

\* the end of one iteration of the for loop over tasksNeedingReminders
NextTask(s) ==
    LET sc == scans[s]
    IN IF Len(sc.queue) > 1
       THEN /\ scans' = [scans EXCEPT ![s] = [sc EXCEPT !.pc = "dispatch", !.queue = Tail(@)]]
            /\ UNCHANGED <<result, http>>
       ELSE /\ scans' = [scans EXCEPT ![s] = IdleScan]
            /\ result' = ReturnSuccess(sc)
            /\ http' = Reply(sc.caller)

\* lines 270-287: read the clock and run the query; the query may throw
checkDueDateReminders(s, caller, p) ==
    /\ proc.alive
    /\ FreeSlot(s)
    /\ budget.runs < MaxRuns
    /\ budget' = [budget EXCEPT !.runs = @ + 1]
    /\ \/ /\ LET found == TasksNeedingReminders(tasks, now)
                 started == [IdleScan EXCEPT !.pc = "dispatch", !.caller = caller, !.queue = found,
                               !.found = Len(found),
                               !.seenSent = {t \in TaskIds : tasks[t].reminderSent = TRUE}]
             IN IF found = <<>>
                THEN /\ scans' = scans
                     /\ result' = ReturnSuccess(started)
                     /\ http' = Reply(caller)
                ELSE /\ scans' = [scans EXCEPT ![s] = started]
                     /\ UNCHANGED <<result, http>>
          /\ proc' = p
       \/ CatchFatal(s, caller, p)
    /\ UNCHANGED <<statsVars, now, tasks, email, tries, notifs, mails, manual, manualMails>>

Bump(count, id, who) ==
    [count EXCEPT ![id] = [u \in Users |-> IF u \in who THEN @[u] + 1 ELSE @[u]]]

\* lines 289-323: the fan-out over the assignees of the task at the head of
\* the loop; out[u] is what happens in the callback of assignee u: "notifFail"
\* Notification.create throws, "mailFail" the notification is created and
\* sendMail rejects, "ok" the notification is created and the mail delivered
Dispatch(s) ==
    /\ proc.alive
    /\ scans[s].pc = "dispatch"
    /\ LET job == Head(scans[s].queue)
           rcpts == {u \in job.assignedTo : email[u]}
       IN \E out \in [rcpts -> Outcomes] :
            LET tried == Attempted(rcpts, out)
            IN /\ tries' = Bump(tries, job.id, tried)
               /\ notifs' = Bump(notifs, job.id, {u \in tried : out[u] # "notifFail"})
               /\ mails' = Bump(mails, job.id, {u \in tried : out[u] = "ok"})
               /\ IF SuccessCount(out) > 0
                  THEN /\ scans' = [scans EXCEPT ![s].pc = "mark"]
                       /\ UNCHANGED <<result, http>>
                  ELSE NextTask(s)
    /\ UNCHANGED <<statsVars, now, tasks, email, manual, manualMails, proc, budget>>

\* lines 326-332: the write of the flag; the write may throw
Mark(s) ==
    /\ proc.alive
    /\ scans[s].pc = "mark"
    /\ \/ /\ tasks' = MarkReminderSent(tasks, Head(scans[s].queue).id, now)
          /\ NextTask(s)
          /\ proc' = proc
       \/ /\ CatchFatal(s, scans[s].caller, proc)
          /\ tasks' = tasks
    /\ UNCHANGED <<statsVars, now, email, tries, notifs, mails, manual, manualMails, budget>>

\* ---- initializeReminderScheduler and the manual trigger -------------------

\* cron.schedule('0 * * * *', ...): a tick of the hourly schedule
CronTick(s) ==
    /\ proc.scheduled
    /\ checkDueDateReminders(s, "timer", proc)

\* setTimeout(..., 5000): the scan shortly after server start
StartupScan(s) ==
    /\ proc.startupPending
    /\ checkDueDateReminders(s, "timer", [proc EXCEPT !.startupPending = FALSE])

\* POST /api/tasks/reminders/trigger
triggerReminders(s, admin) ==
    IF ~admin
    THEN /\ proc.alive
         /\ http' = Response("forbidden", 0)
         /\ UNCHANGED <<statsVars, now, tasks, email, scans, tries, notifs, mails, manual, manualMails, proc, result, budget>>
    ELSE checkDueDateReminders(s, "http", proc)

\* ---- task controller ------------------------------------------------------

\* addActivityLog(task, userId, 'status_changed', 'Status was changed', old, new):
\* of the entries of activityLog the model keeps those with this action
StatusChanged(log, old, new) ==
    Append(log, [action |-> "status_changed", oldValue |-> old, newValue |-> new])

NoStatus == "none"

\* the request bodies of PUT /api/tasks/:id that are enumerated: one field each
Bodies ==
    {[dueDate |-> d, assignedTo |-> <<>>, status |-> NoStatus] : d \in OptDates(DueDates) \ {NoDate}}
    \cup {[dueDate |-> NoDate, assignedTo |-> <<a>>, status |-> NoStatus] : a \in SUBSET Users}

\* the bodies that carry a status and nothing else
StatusBodies == {[dueDate |-> NoDate, assignedTo |-> <<>>, status |-> st] : st \in Statuses}

\* faulty variant: a new dueDate re-arms the reminder
UpdatedRearm(doc, body) ==
    [doc EXCEPT !.activityLog = IF body.status # NoStatus /\ body.status # doc.status
                                THEN StatusChanged(@, doc.status, body.status) ELSE @,
                !.dueDate = IF body.dueDate # NoDate THEN body.dueDate ELSE @,
                !.assignedTo = IF body.assignedTo # <<>> THEN body.assignedTo[1] ELSE @,
                !.reminderSent = IF body.dueDate # NoDate THEN FALSE ELSE @]

\* if (req.body.status && req.body.status !== task.status) addActivityLog(...);
\* then task.dueDate = req.body.dueDate || task.dueDate, and so on: a field of
\* the body that is absent leaves the field of the document as it is; status is
\* not among the fields assigned
Updated(doc, body) ==
    [doc EXCEPT !.activityLog = IF body.status # NoStatus /\ body.status # doc.status
                                THEN StatusChanged(@, doc.status, body.status) ELSE @,
                !.dueDate = IF body.dueDate # NoDate THEN body.dueDate ELSE @,
                !.assignedTo = IF body.assignedTo # <<>> THEN body.assignedTo[1] ELSE @]

\* PUT /api/tasks/:id ; task.save() writes the modified paths only
updateTask(t, body) ==
    /\ proc.alive
    /\ budget.ops < MaxOps
    /\ budget' = [budget EXCEPT !.ops = @ + 1]
    /\ tasks' = [tasks EXCEPT ![t] = Updated(@, body)]
    /\ http' = Response("ok", 0)
    /\ UNCHANGED <<statsVars, now, email, scans, tries, notifs, mails, manual, manualMails, proc, result>>

\* task.assignedTo?.toString() === req.user._id.toString(): the array prints
\* as its ids joined by commas, so it equals one id only for a sole assignee
IsAssigned(t, u) == t.assignedTo = {u}

\* PUT /api/tasks/:id/status
updateTaskStatus(t, u, admin, status) ==
    /\ proc.alive
    /\ IF ~IsAssigned(tasks[t], u) /\ ~admin
       THEN /\ http' = Response("forbidden", 0)
            /\ UNCHANGED <<tasks, budget>>
       ELSE /\ budget.ops < MaxOps
            /\ budget' = [budget EXCEPT !.ops = @ + 1]
            /\ tasks' = [tasks EXCEPT
                    ![t].activityLog = IF tasks[t].status # status
                                       THEN StatusChanged(@, tasks[t].status, status) ELSE @,
                    ![t].status = status,
                    ![t].todoChecklist = IF status = "Completed"
                                         THEN [i \in DOMAIN @ |-> TRUE] ELSE @,
                    ![t].progress = IF status = "Completed" THEN 100 ELSE @]
            /\ http' = Response("ok", 0)
    /\ UNCHANGED <<statsVars, now, email, scans, tries, notifs, mails, manual, manualMails, proc, result>>

\* Math.round(a / b) for a >= 0, b > 0
Round(a, b) == (2 * a + b) \div (2 * b)

Checklists == UNION {[1..n -> BOOLEAN] : n \in 0..MaxItems}

CompletedCount(list) == Cardinality({i \in DOMAIN list : list[i]})

Progress(list) == IF Len(list) > 0 THEN Round(100 * CompletedCount(list), Len(list)) ELSE 0

\* faulty variant: no branch for progress 0
StatusOfStarted(progress) ==
    IF progress = 100 THEN "Completed" ELSE "In Progress"

\* the if / else if / else on task.progress
StatusOf(progress) ==
    IF progress = 100 THEN "Completed"
    ELSE IF progress > 0 THEN "In Progress" ELSE "Pending"

\* PUT /api/tasks/:id/todo
updateTaskChecklist(t, u, admin, todoChecklist) ==
    /\ proc.alive
    /\ IF u \notin tasks[t].assignedTo /\ ~admin
       THEN /\ http' = Response("forbidden", 0)
            /\ UNCHANGED <<tasks, budget>>
       ELSE /\ budget.ops < MaxOps
            /\ budget' = [budget EXCEPT !.ops = @ + 1]
            /\ tasks' = [tasks EXCEPT
                    ![t].todoChecklist = todoChecklist,
                    ![t].progress = Progress(todoChecklist),
                    ![t].status = StatusOf(Progress(todoChecklist))]
            /\ http' = Response("ok", 0)
    /\ UNCHANGED <<statsVars, now, email, scans, tries, notifs, mails, manual, manualMails, proc, result>>

\* an id for which Task.findById returns null
NoTask == 0

\* faulty variant: the manual send goes out for a Completed task too
RemindableAlways(doc) == TRUE

\* faulty variant: the manual send honours the guard of the scheduler
RemindableOnce(doc) == doc.status # "Completed" /\ ~doc.reminderSent

\* the only condition on the task: if (task.status === 'Completed') return 400
Remindable(doc) == doc.status # "Completed"

\* POST /api/tasks/:id/send-reminder
sendTaskReminder(t, admin) ==
    /\ proc.alive
    /\ IF ~admin
       THEN /\ http' = Response("forbidden", 0)
            /\ UNCHANGED <<manual, manualMails, budget>>
       ELSE IF t = NoTask
       THEN /\ http' = Response("notFound", 0)
            /\ UNCHANGED <<manual, manualMails, budget>>
       ELSE IF ~Remindable(tasks[t])
       THEN /\ http' = Response("badRequest", 0)
            /\ UNCHANGED <<manual, manualMails, budget>>
       ELSE /\ budget.ops < MaxOps
            /\ budget' = [budget EXCEPT !.ops = @ + 1]
            /\ LET rcpts == {u \in tasks[t].assignedTo : email[u]}
               IN \E out \in [rcpts -> Outcomes] :
                    LET created == {u \in rcpts : out[u] # "notifFail"}
                    IN /\ manual' = Bump(manual, t, created)
                       /\ manualMails' = Bump(manualMails, t, {u \in rcpts : out[u] = "ok"})
                       /\ http' = Response("ok", Cardinality(created))
    /\ UNCHANGED <<statsVars, now, tasks, email, scans, tries, notifs, mails, proc, result>>

\* ---- getProductivityStats: the days of the streak ----------------------------

\* "Don't check more than 365 days": if (currentStreak > 365) break
StreakCap == 365

\* checkDate.setHours(0, 0, 0, 0): the first instant of the day of an instant
StartOfDay(t) == (t \div DayLen) * DayLen

\* dayEnd.setHours(23, 59, 59, 999): the last instant of the day that starts at d
EndOfDay(d) == d + DayLen - 1

\* faulty variant: the last instant of the day is left out
CompletedBeforeDayEnd(list, dayStart) ==
    \E i \in DOMAIN list :
        /\ list[i].status = "Completed"
        /\ list[i].updatedAt >= dayStart
        /\ list[i].updatedAt < EndOfDay(dayStart)

\* allTasks.some(task => status === 'Completed' && updatedAt >= dayStart && updatedAt <= dayEnd)
CompletedOnDay(list, dayStart) ==
    \E i \in DOMAIN list :
        /\ list[i].status = "Completed"
        /\ list[i].updatedAt >= dayStart
        /\ list[i].updatedAt <= EndOfDay(dayStart)

\* ---- the statistics computed from a task list -----------------------------

Min(a, b) == IF a < b THEN a ELSE b
Max(a, b) == IF a > b THEN a ELSE b

\* list.reduce((sum, x) => sum + x, 0) for counts x: the sum is the number of
\* pairs <<i, j>> with 1 <= j <= xs[i]
SumSeq(xs) == Cardinality(UNION {{i} \X (1..xs[i]) : i \in DOMAIN xs})

IsCompleted(task) == task.status = "Completed"

\* allTasks.filter(t => t.status === 'Completed')
CompletedTasks(list) == SelectSeq(list, IsCompleted)

\* faulty variant: on time means completed at or after the dueDate
OnTimeReversed(task) == task.dueDate # NoDate /\ task.updatedAt >= task.dueDate[1]

\* faulty variant: a completion without dueDate counts as on time
OnTimeOrUndated(task) == task.dueDate = NoDate \/ task.updatedAt <= task.dueDate[1]

\* task.dueDate && new Date(task.updatedAt) <= new Date(task.dueDate)
OnTime(task) == task.dueDate # NoDate /\ task.updatedAt <= task.dueDate[1]

OnTimeCompletions(list) == Len(SelectSeq(CompletedTasks(list), OnTime))

\* faulty variant: with no completed task the rate is 100
OnTimeRateVacuous(list) ==
    IF Len(CompletedTasks(list)) > 0
    THEN Round(100 * OnTimeCompletions(list), Len(CompletedTasks(list)))
    ELSE 100

\* completedTasks.length > 0 ? Math.round((onTimeCompletions / completedTasks.length) * 100) : 0
OnTimeRate(list) ==
    IF Len(CompletedTasks(list)) > 0
    THEN Round(100 * OnTimeCompletions(list), Len(CompletedTasks(list)))
    ELSE 0

\* checklistStats after the forEach: the items of all checklists, and the completed ones
ChecklistStats(list) ==
    [total |-> SumSeq([i \in DOMAIN list |-> Len(list[i].todoChecklist)]),
     completed |-> SumSeq([i \in DOMAIN list |-> CompletedCount(list[i].todoChecklist)])]

\* checklistStats.total > 0 ? Math.round((completed / total) * 100) : 0
ChecklistCompletionRate(list) ==
    LET cs == ChecklistStats(list)
    IN IF cs.total > 0 THEN Round(100 * cs.completed, cs.total) ELSE 0

\* status !== 'Completed' && dueDate && new Date(dueDate) < new Date()
Overdue(task, n) == task.status # "Completed" /\ task.dueDate # NoDate /\ task.dueDate[1] < n

OverdueTasks(list, n) == Cardinality({i \in DOMAIN list : Overdue(list[i], n)})

\* startDate: daysToAnalyze days back, at 00:00:00.000
StartDate(n, period) == StartOfDay(n) - period * DayLen

\* allTasks.filter(task => task.status === 'Completed' && task.updatedAt >= startDate)
CompletedInPeriod(list, n, period) ==
    Cardinality({i \in DOMAIN list : IsCompleted(list[i]) /\ list[i].updatedAt >= StartDate(n, period)})

\* the weights of the score are fractions <<numerator, denominator>>
Plus(f, g) == <<f[1] * g[2] + g[1] * f[2], f[2] * g[2]>>

\* Math.min(allTasks.length / 10, 1) * 20
TotalTaskWeight(list) == <<Min(Len(list), 10) * 2, 1>>

\* (completedTasks.length / Math.max(allTasks.length, 1)) * 25
CompletionRateWeight(list) == <<Len(CompletedTasks(list)) * 25, Max(Len(list), 1)>>

\* faulty variant: the weight of the exact on-time ratio, not of the rounded percentage
OnTimeWeightUnrounded(list) ==
    <<OnTimeCompletions(list) * 25, Max(Len(CompletedTasks(list)), 1)>>

\* onTimeRate * 0.25, that is onTimeRate / 4
OnTimeWeight(list) == <<OnTimeRate(list), 4>>

\* Math.min(currentStreak / 7, 1) * 15
StreakWeight(currentStreak) == <<Min(currentStreak, 7) * 15, 7>>

\* checklistCompletionRate * 0.15, that is 3/20 of the rounded percentage
ChecklistWeight(list) == <<ChecklistCompletionRate(list) * 3, 20>>

\* the team computation: checklistRate = total > 0 ? (completed / total) * 100 : 0 is
\* not rounded before checklistRate * 0.15
TeamChecklistWeight(list) ==
    LET cs == ChecklistStats(list)
    IN IF cs.total > 0 THEN <<cs.completed * 15, cs.total>> ELSE <<0, 1>>

\* faulty variant: the streak weight without its cap at one week, and no clamp
ProductivityScoreUnbounded(list, currentStreak, checklistWeight) ==
    LET sum == Plus(Plus(Plus(Plus(TotalTaskWeight(list), CompletionRateWeight(list)),
                              OnTimeWeight(list)), <<currentStreak * 15, 7>>),
                    checklistWeight)
    IN Round(sum[1], sum[2])

\* Math.min(100, Math.round(totalTaskWeight + completionRateWeight + onTimeWeight
\*                          + streakWeight + checklistWeight))
ProductivityScore(list, currentStreak, checklistWeight) ==
    LET sum == Plus(Plus(Plus(Plus(TotalTaskWeight(list), CompletionRateWeight(list)),
                              OnTimeWeight(list)), StreakWeight(currentStreak)),
                    checklistWeight)
    IN Min(100, Round(sum[1], sum[2]))

\* ---- getProductivityStats: the weekly trend ---------------------------------

WeekDays == 7

\* the periods a request asks for (?period=7, ?period=14)
Periods == {WeekDays, 2 * WeekDays}

\* Math.ceil(daysToAnalyze / 7)
WeeksToShow(period) == (period + WeekDays - 1) \div WeekDays

\* weekStart: (i + 1) * 7 days back, at 00:00:00.000
WeekStart(n, i) == StartOfDay(n) - (i + 1) * WeekDays * DayLen

\* weekEnd: i * 7 days back, at 23:59:59.999
WeekEnd(n, i) == EndOfDay(StartOfDay(n) - i * WeekDays * DayLen)

CompletedThisWeek(task, n, i) ==
    IsCompleted(task) /\ task.updatedAt >= WeekStart(n, i) /\ task.updatedAt <= WeekEnd(n, i)

CreatedThisWeek(task, n, i) ==
    task.createdAt >= WeekStart(n, i) /\ task.createdAt <= WeekEnd(n, i)

\* the for loop with weeklyData.unshift: entry j of the result is the bucket
\* of loop index i = weeksToShow - j, so the oldest bucket comes first
WeeklyData(list, n, period) ==
    [j \in 1..WeeksToShow(period) |->
        LET i == WeeksToShow(period) - j
        IN [completed |-> Cardinality({t \in DOMAIN list : CompletedThisWeek(list[t], n, i)}),
            created |-> Cardinality({t \in DOMAIN list : CreatedThisWeek(list[t], n, i)})]]

\* ---- getProductivityStats -------------------------------------------------

\* GET /api/tasks/productivity-stats, up to the streak loop: the period counts,
\* the weekly trend, the on-time rate, then
\* let currentStreak = 0; let checkDate = new Date(); checkDate.setHours(0, 0, 0, 0)
getProductivityStats(period) ==
    /\ stats.pc = "idle"
    /\ budget.ops < MaxStatCalls
    /\ budget' = [budget EXCEPT !.ops = @ + 1]
    /\ stats' = [NoStats EXCEPT !.pc = "loop", !.period = period,
                                !.tasksCompleted = CompletedInPeriod(allTasks, now, period),
                                !.weeklyTrend = WeeklyData(allTasks, now, period),
                                !.onTimeRate = OnTimeRate(allTasks),
                                !.checkDate = StartOfDay(now), !.currentStreak = 0]
    /\ UNCHANGED <<now, tasks, email, scans, tries, notifs, mails, manual, manualMails, proc, result, http,
                   allTasks, orgTasks, team>>

\* after the streak loop: checklist rate, overdue tasks, score, res.json
Respond(st) ==
    [st EXCEPT !.pc = "done",
               !.checklistRate = ChecklistCompletionRate(allTasks),
               !.overdueTasks = OverdueTasks(allTasks, now),
               !.productivityScore =
                    ProductivityScore(allTasks, st.currentStreak, ChecklistWeight(allTasks))]

\* one pass of the while (true) loop: count the day and step back one day if
\* the day has a completion, else leave; leave when the count has passed the cap
StreakLoop ==
    /\ stats.pc = "loop"
    /\ stats' =
         IF CompletedOnDay(allTasks, stats.checkDate)
         THEN LET st == [stats EXCEPT !.checkDate = @ - DayLen, !.currentStreak = @ + 1]
              IN IF st.currentStreak > StreakCap THEN Respond(st) ELSE st
         ELSE Respond(stats)
    /\ UNCHANGED <<now, tasks, email, scans, tries, notifs, mails, manual, manualMails, proc, result, http,
                   budget, allTasks, orgTasks, team>>

\* ---- the team statistics --------------------------------------------------

\* while (currentStreak < 365) { if (completedOnDay) currentStreak++ else break }:
\* the loop leaves at the first count k that has reached the cap or whose day,
\* k days back, has no completion
TeamStreak(list, n) ==
    CHOOSE k \in 0..StreakCap :
        /\ k = StreakCap \/ ~CompletedOnDay(list, StartOfDay(n) - k * DayLen)
        /\ \A j \in 0..(k - 1) : CompletedOnDay(list, StartOfDay(n) - j * DayLen)

\* the object one callback of orgUsers.map returns
MemberStats(user, list, n, period) ==
    LET streak == TeamStreak(list, n)
    IN
    [user |-> user,
     totalTasks |-> Len(list),
     completedTasks |-> Len(CompletedTasks(list)),
     completedInPeriod |-> CompletedInPeriod(list, n, period),
     pendingTasks |-> Cardinality({i \in DOMAIN list : list[i].status = "Pending"}),
     inProgressTasks |-> Cardinality({i \in DOMAIN list : list[i].status = "In Progress"}),
     overdueTasks |-> OverdueTasks(list, n),
     onTimeRate |-> OnTimeRate(list),
     currentStreak |-> streak,
     productivityScore |-> ProductivityScore(list, streak, TeamChecklistWeight(list))]

\* faulty variant: an insertion that puts a member before the members of equal score
InsertBeforeEqual(sorted, m) ==
    LET k == Cardinality({i \in DOMAIN sorted : sorted[i].productivityScore > m.productivityScore})
    IN SubSeq(sorted, 1, k) \o <<m>> \o SubSeq(sorted, k + 1, Len(sorted))

\* one insertion of the stable sort with the comparator
\* (a, b) => b.productivityScore - a.productivityScore: m goes behind every
\* member that does not compare after it
Insert(sorted, m) ==
    LET k == Cardinality({i \in DOMAIN sorted : sorted[i].productivityScore >= m.productivityScore})
    IN SubSeq(sorted, 1, k) \o <<m>> \o SubSeq(sorted, k + 1, Len(sorted))

RECURSIVE SortByScore(_)
\* teamStats.sort((a, b) => b.productivityScore - a.productivityScore)
SortByScore(ms) ==
    IF ms = <<>> THEN <<>>
    ELSE Insert(SortByScore(SubSeq(ms, 1, Len(ms) - 1)), ms[Len(ms)])

\* faulty variant: the mean cut off instead of rounded
MeanTruncated(xs) == IF Len(xs) > 0 THEN SumSeq(xs) \div Len(xs) ELSE 0

\* teamStats.length > 0 ? Math.round(teamStats.reduce(...) / teamStats.length) : 0
Mean(xs) == IF Len(xs) > 0 THEN Round(SumSeq(xs), Len(xs)) ELSE 0

TeamAverage(ms) ==
    [avgProductivityScore |-> Mean([i \in DOMAIN ms |-> ms[i].productivityScore]),
     totalCompleted |-> SumSeq([i \in DOMAIN ms |-> ms[i].completedInPeriod]),
     avgOnTimeRate |-> Mean([i \in DOMAIN ms |-> ms[i].onTimeRate]),
     totalOverdue |-> SumSeq([i \in DOMAIN ms |-> ms[i].overdueTasks])]

\* Promise.all(orgUsers.map(...)), the sort, the averages and the response
TeamResponse(n, period) ==
    LET teamStats == SortByScore([u \in DOMAIN orgTasks |-> MemberStats(u, orgTasks[u], n, period)])
    IN [via |-> "controller", period |-> period, teamSize |-> Len(teamStats),
        members |-> teamStats, teamAverage |-> TeamAverage(teamStats)]

\* GET /api/tasks/team-productivity-stats
getTeamProductivityStats(admin, publicDomain, period) ==
    /\ budget.ops < MaxStatCalls
    /\ budget' = [budget EXCEPT !.ops = @ + 1]
    /\ IF ~admin \/ publicDomain
       THEN /\ http' = Response("forbidden", 0)
            /\ team' = team
       ELSE /\ http' = Response("ok", 0)
            /\ team' = TeamResponse(now, period)
    /\ UNCHANGED <<now, tasks, email, scans, tries, notifs, mails, manual, manualMails, proc, result,
                   allTasks, stats, orgTasks>>

\* ---- reportController: the data of the team productivity exports ------------

\* the streak walk of the export: while (currentStreak < 365) with the same
\* day test and the same step back
ReportStreak(list, n) ==
    CHOOSE k \in 0..StreakCap :
        /\ k = StreakCap \/ ~CompletedOnDay(list, StartOfDay(n) - k * DayLen)
        /\ \A j \in 0..(k - 1) : CompletedOnDay(list, StartOfDay(n) - j * DayLen)

\* checklistRate * 0.15 of the export, the rate not rounded
ReportChecklistWeight(list) ==
    LET cs == ChecklistStats(list)
    IN IF cs.total > 0 THEN <<cs.completed * 15, cs.total>> ELSE <<0, 1>>

\* faulty variant: the export scores with the rounded checklist rate of the
\* personal statistics
ReportMemberStatsRounded(user, list, n, period) ==
    LET streak == ReportStreak(list, n)
    IN
    [user |-> user,
     totalTasks |-> Len(list),
     completedTasks |-> Len(CompletedTasks(list)),
     completedInPeriod |-> CompletedInPeriod(list, n, period),
     pendingTasks |-> Cardinality({i \in DOMAIN list : list[i].status = "Pending"}),
     inProgressTasks |-> Cardinality({i \in DOMAIN list : list[i].status = "In Progress"}),
     overdueTasks |-> OverdueTasks(list, n),
     onTimeRate |-> OnTimeRate(list),
     currentStreak |-> streak,
     productivityScore |-> ProductivityScore(list, streak, ChecklistWeight(list))]

\* the object one callback of orgUsers.map returns in getTeamProductivityData
ReportMemberStats(user, list, n, period) ==
    LET streak == ReportStreak(list, n)
    IN
    [user |-> user,
     totalTasks |-> Len(list),
     completedTasks |-> Len(CompletedTasks(list)),
     completedInPeriod |-> CompletedInPeriod(list, n, period),
     pendingTasks |-> Cardinality({i \in DOMAIN list : list[i].status = "Pending"}),
     inProgressTasks |-> Cardinality({i \in DOMAIN list : list[i].status = "In Progress"}),
     overdueTasks |-> OverdueTasks(list, n),
     onTimeRate |-> OnTimeRate(list),
     currentStreak |-> streak,
     productivityScore |-> ProductivityScore(list, streak, ReportChecklistWeight(list))]

\* the teamAverage object of the export
ReportAverage(ms) ==
    [avgProductivityScore |-> Mean([i \in DOMAIN ms |-> ms[i].productivityScore]),
     totalCompleted |-> SumSeq([i \in DOMAIN ms |-> ms[i].completedInPeriod]),
     avgOnTimeRate |-> Mean([i \in DOMAIN ms |-> ms[i].onTimeRate]),
     totalOverdue |-> SumSeq([i \in DOMAIN ms |-> ms[i].overdueTasks])]

\* return { period: daysToAnalyze, teamSize, teamAverage, members: teamStats }
ReportResponse(n, period) ==
    LET teamStats == SortByScore([u \in DOMAIN orgTasks |->
                                     ReportMemberStats(u, orgTasks[u], n, period)])
    IN [via |-> "report", period |-> period, teamSize |-> Len(teamStats),
        members |-> teamStats, teamAverage |-> ReportAverage(teamStats)]

\* the helper behind exportTeamProductivity and exportTeamProductivityPDF; for
\* an admin of a public domain it throws and the export answers 500
getTeamProductivityData(publicDomain, period) ==
    /\ budget.ops < MaxStatCalls
    /\ budget' = [budget EXCEPT !.ops = @ + 1]
    /\ IF publicDomain
       THEN /\ http' = Response("error", 0)
            /\ team' = team
       ELSE /\ http' = Response("ok", 0)
            /\ team' = ReportResponse(now, period)
    /\ UNCHANGED <<now, tasks, email, scans, tries, notifs, mails, manual, manualMails, proc, result,
                   allTasks, stats, orgTasks>>

\* ---- specifications -------------------------------------------------------

\* the scheduler with overlapping invocations, over every small task table
Next ==
    \/ Tick
    \/ \E s \in ScanIds : CronTick(s)
    \/ \E s \in ScanIds : StartupScan(s)
    \/ \E s \in ScanIds : Dispatch(s)
    \/ \E s \in ScanIds : Mark(s)

Spec == Init /\ [][Next]_vars

\* the task controller next to the scheduler: the first task starts due in
\* exactly 24 hours and assigned to every user, the others undated and
\* unassigned; a scan starts when none is in flight; the clock stands still
InitOps ==
    /\ Init
    /\ \A t \in TaskIds : /\ tasks[t].dueDate = IF t = 1 THEN Date(TwentyFourHours) ELSE NoDate
                          /\ tasks[t].assignedTo = IF t = 1 THEN Users ELSE {}
    /\ \A u \in Users : email[u]

NoScan == \A r \in ScanIds : scans[r].pc = "idle"

ScanChecklists == {<<>>, <<TRUE>>, <<TRUE, FALSE>>}

NextOps ==
    \/ \E s \in ScanIds : NoScan /\ CronTick(s)
    \/ \E s \in ScanIds, admin \in BOOLEAN : NoScan /\ triggerReminders(s, admin)
    \/ \E s \in ScanIds : Dispatch(s)
    \/ \E s \in ScanIds : Mark(s)
    \/ \E t \in TaskIds, body \in Bodies : updateTask(t, body)
    \/ \E t \in TaskIds, u \in Users, admin \in BOOLEAN, status \in Statuses :
            updateTaskStatus(t, u, admin, status)
    \/ \E t \in TaskIds, u \in Users, admin \in BOOLEAN, list \in ScanChecklists :
            updateTaskChecklist(t, u, admin, list)
    \/ \E t \in TaskIds \cup {NoTask}, admin \in BOOLEAN : sendTaskReminder(t, admin)

SpecOps == InitOps /\ [][NextOps]_vars

\* the task controller alone: updateTask with every one-field body, the status
\* among the fields, and the checklists of up to MaxCtlItems items and one of
\* TieItems items with a single item completed
CtlChecklists ==
    UNION {[1..n -> BOOLEAN] : n \in 0..MaxCtlItems} \cup {[i \in 1..TieItems |-> i = 1]}

NextCtl ==
    \/ \E t \in TaskIds, body \in Bodies \cup StatusBodies : updateTask(t, body)
    \/ \E t \in TaskIds, u \in Users, admin \in BOOLEAN, status \in Statuses :
            updateTaskStatus(t, u, admin, status)
    \/ \E t \in TaskIds, u \in Users, admin \in BOOLEAN, list \in CtlChecklists :
            updateTaskChecklist(t, u, admin, list)

SpecCtl == InitOps /\ [][NextCtl]_vars

\* the schedule in time: the server starts at the top of an hour or in the
\* middle of one and the clock runs to LastHour; the cron callback fires once at
\* every multiple of ScanInterval, the startup timer fires before the clock
\* moves on, and a scan returns before the clock moves on; budget.runs counts
\* the scans of the current instant
InitLive ==
    /\ now \in 0..(ScanInterval - 1)
    /\ InitSched
    /\ allTasks = <<>>
    /\ stats = NoStats
    /\ orgTasks = <<>>
    /\ team = NoTeam

TopOfHour == now % ScanInterval = 0

LiveCron(s) ==
    /\ TopOfHour
    /\ NoScan
    /\ budget.runs = 0
    /\ CronTick(s)

LiveStartup(s) ==
    /\ NoScan
    /\ TopOfHour => budget.runs > 0
    /\ StartupScan(s)

LiveTick ==
    /\ now < LastHour
    /\ NoScan
    /\ ~proc.startupPending
    /\ TopOfHour => budget.runs > 0
    /\ now' = now + 1
    /\ budget' = [budget EXCEPT !.runs = 0]
    /\ UNCHANGED <<statsVars, tasks, email, scans, tries, notifs, mails, manual, manualMails,
                   proc, result, http>>

NextLive ==
    \/ LiveTick
    \/ \E s \in ScanIds : LiveCron(s)
    \/ \E s \in ScanIds : LiveStartup(s)
    \/ \E s \in ScanIds : Dispatch(s)
    \/ \E s \in ScanIds : Mark(s)

\* the timers of node fire and the awaited promises settle: a step that stays
\* possible is taken
SpecLive ==
    /\ InitLive
    /\ [][NextLive]_vars
    /\ WF_vars(LiveTick)
    /\ \A s \in ScanIds : /\ WF_vars(LiveCron(s))
                          /\ WF_vars(LiveStartup(s))
                          /\ WF_vars(Dispatch(s))
                          /\ WF_vars(Mark(s))

\* a task document as the statistics read it
Doc(status, createdAt, updatedAt, dueDate, todoChecklist) ==
    [status |-> status, createdAt |-> createdAt, updatedAt |-> updatedAt,
     dueDate |-> dueDate, todoChecklist |-> todoChecklist]

\* the statistics as a function of the task list: every list of up to
\* MaxStatTasks tasks updated in the last HistoryDays days, and the histories
\* with a completion on each of the last n days for n around the cap
StatDocs(n) ==
    {Doc(s, u, u, NoDate, <<>>) :
        s \in Statuses, u \in (StartOfDay(n) - HistoryDays * DayLen)..n}

LongRun(n, len) ==
    [i \in 1..len |->
        Doc("Completed", StartOfDay(n) - (i - 1) * DayLen, StartOfDay(n) - (i - 1) * DayLen,
            NoDate, <<>>)]

LongRuns == {StreakCap - 1, StreakCap, StreakCap + 1, StreakCap + 2, LongDay}

\* the documents for the rates and the score: updated today or yesterday, with
\* no dueDate, a dueDate one instant ago or a dueDate now, and a checklist
ScoreDocs(n) ==
    {Doc(s, u, u, d, c) :
        s \in Statuses, u \in {n - DayLen, n}, d \in {NoDate, Date(n - 1), Date(n)},
        c \in ScanChecklists}

\* ten tasks: six Completed, five of them on time, on today, yesterday, the day
\* before and five days ago; fifteen of twenty checklist items completed
ExampleHistory(n) ==
    LET day(k) == StartOfDay(n) - k * DayLen
    IN << Doc("Completed", day(0), day(0), Date(n), <<TRUE, TRUE>>),
          Doc("Completed", day(1), day(1), Date(n), <<TRUE, TRUE>>),
          Doc("Completed", day(2), day(2), Date(n), <<TRUE, TRUE>>),
          Doc("Completed", day(5), day(5), Date(n), <<TRUE, TRUE>>),
          Doc("Completed", day(5), day(5), Date(day(5)), <<TRUE, TRUE>>),
          Doc("Completed", day(5), day(5), Date(day(5) - 1), <<TRUE, TRUE>>),
          Doc("In Progress", day(5), day(1), Date(n), <<TRUE, FALSE>>),
          Doc("In Progress", day(5), day(1), NoDate, <<TRUE, FALSE>>),
          Doc("In Progress", day(5), day(1), NoDate, <<TRUE, FALSE>>),
          Doc("Pending", day(5), day(5), NoDate, <<FALSE, FALSE>>) >>

\* three tasks: one Completed today, one In Progress with two of three
\* checklist items completed, one Pending; none has a dueDate
RoundingHistory(n) ==
    << Doc("Completed", StartOfDay(n), StartOfDay(n), NoDate, <<>>),
       Doc("In Progress", StartOfDay(n), StartOfDay(n), NoDate, <<TRUE, TRUE, FALSE>>),
       Doc("Pending", StartOfDay(n), StartOfDay(n), NoDate, <<>>) >>

\* the documents for the weekly trend: created and updated at the start of a
\* day at the edges of the seven-day buckets
WeekEdges == {0, WeekDays - 1, WeekDays, WeekDays + 1, 2 * WeekDays, 2 * WeekDays + 1}

WeeklyDocs(n) ==
    {Doc(s, StartOfDay(n) - cu[1] * DayLen, StartOfDay(n) - cu[2] * DayLen, NoDate, <<>>) :
        s \in {"Pending", "Completed"}, cu \in {p \in WeekEdges \X WeekEdges : p[2] <= p[1]}}

\* the histories of the members of a team
MemberHistories(n) ==
    {<<>>}
    \cup {<<Doc(s, u, u, d, c)>> :
            s \in Statuses, u \in {StartOfDay(n) - (WeekDays + 1) * DayLen, n},
            d \in {NoDate, Date(n - 1)}, c \in {<<>>}}
    \cup {<<Doc("Completed", n, n, Date(n), <<TRUE>>), Doc("Completed", n, n, NoDate, <<TRUE, FALSE>>)>>}
    \cup {RoundingHistory(n)}

Lists(S, max) == UNION {[1..k -> S] : k \in 0..max}

InitStats ==
    /\ InitSched
    /\ \A t \in TaskIds : tasks[t].dueDate = NoDate /\ tasks[t].assignedTo = {}
    /\ \A u \in Users : email[u]
    /\ stats = NoStats
    /\ team = NoTeam
    /\ \/ /\ now \in (HistoryDays * DayLen)..(HistoryDays * DayLen + DayLen - 1)
          /\ allTasks \in Lists(StatDocs(now), MaxStatTasks)
          /\ orgTasks = <<>>
       \/ /\ now = LongDay * DayLen
          /\ \/ \E len \in LongRuns : allTasks = LongRun(now, len)
             \/ allTasks \in Lists(ScoreDocs(now), MaxScoreTasks)
             \/ allTasks = ExampleHistory(now)
             \/ allTasks = RoundingHistory(now)
             \/ allTasks \in Lists(WeeklyDocs(now), MaxScoreTasks)
          /\ orgTasks = <<>>
       \/ /\ now = LongDay * DayLen
          /\ allTasks = <<>>
          /\ \/ orgTasks \in Lists(MemberHistories(now), MaxMembers)
             \/ \E rest \in Lists(MemberHistories(now), 1) :
                    orgTasks = <<LongRun(now, LongDay)>> \o rest

NextStats ==
    \/ \E period \in Periods : getProductivityStats(period)
    \/ StreakLoop
    \/ \E admin, publicDomain \in BOOLEAN, period \in Periods :
            getTeamProductivityStats(admin, publicDomain, period)
    \/ \E publicDomain \in BOOLEAN, period \in Periods :
            getTeamProductivityData(publicDomain, period)

SpecStats == InitStats /\ [][NextStats]_vars

\* ---- properties -----------------------------------------------------------

Selected(sc) == {sc.queue[i].id : i \in DOMAIN sc.queue}

\* the invocation in slot s takes a step of its loop over the selected tasks
LoopStep(s) == scans[s].pc # "idle" /\ scans'[s] # scans[s]

\* the invocation in slot s ends in the outer catch
Aborts(s) == scans[s].pc # "idle" /\ scans'[s].pc = "idle" /\ ~result'.success

\* C1: an invocation whose query ran after a task was marked reminderSent
\* (the task is in its seenSent) creates no notification and sends no email
\* for that task, and does not even try
C1_Idempotent ==
    [][\A t \in TaskIds :
         (\E u \in Users : tries'[t][u] # tries[t][u] \/ notifs'[t][u] # notifs[t][u]
                             \/ mails'[t][u] # mails[t][u])
         => \E s \in ScanIds : LoopStep(s) /\ t \notin scans[s].seenSent]_vars

\* a later invocation has dispatched another task while task t, marked before
\* it started, kept the single notification of the scan that marked it
C1_Witness ==
    \E s \in ScanIds, t \in TaskIds, u \in Users :
        /\ scans[s].pc = "mark"
        /\ t \in scans[s].seenSent
        /\ tasks[t].reminderSent
        /\ notifs[t][u] = 1

\* C2: when an invocation has sent for a task that an overlapping invocation
\* marked in the meantime, no assignee of the task has more than one reminder
C2_NoDoubleSend ==
    \A s \in ScanIds, t \in TaskIds :
        (scans[s].pc = "mark" /\ Head(scans[s].queue).id = t /\ tasks[t].reminderSent)
        => \A u \in Users : notifs[t][u] <= 1 /\ mails[t][u] <= 1

\* C3: a task is marked reminderSent only if a reminder email for it was delivered
C3_MarkedOnlyAfterDelivery ==
    \A t \in TaskIds : tasks[t].reminderSent => \E u \in Users : mails[t][u] > 0

\* C4: when the fan-out of a task delivers at least one email, whatever
\* happens to the other assignees, the invocation goes on to the write of the
\* flag, and the write, unless the data store throws, sets reminderSent and
\* reminderSentAt
C4_PartialFailureCommit ==
    [][\A s \in ScanIds :
         LET t == Head(scans[s].queue).id
         IN /\ (scans[s].pc = "dispatch" /\ LoopStep(s)
                  /\ \E u \in Users : mails'[t][u] > mails[t][u])
               => scans'[s].pc = "mark"
            /\ (scans[s].pc = "mark" /\ LoopStep(s) /\ ~Aborts(s))
               => tasks'[t].reminderSent /\ tasks'[t].reminderSentAt = Date(now)]_vars

\* after one scan, a task is marked although one assignee got the email and
\* the notification of the other could not even be created
C4_Witness ==
    \E t \in TaskIds, u, v \in Users :
        /\ budget.runs = 1
        /\ tasks[t].reminderSent
        /\ mails[t][u] = 1
        /\ tries[t][v] = 1 /\ notifs[t][v] = 0

C6_Permanent ==
    [][\A t \in TaskIds :
         tasks[t].reminderSent =>
            /\ tasks'[t].reminderSent
            /\ \A s \in ScanIds : scans[s].pc = "idle" => t \notin Selected(scans'[s])]_vars

\* a marked task whose dueDate was changed and whose status was set back, with
\* two scans run
C6_Witness ==
    \E t \in TaskIds :
        /\ tasks[t].reminderSent
        /\ tasks[t].dueDate = Date(1)
        /\ tasks[t].status = "In Progress"
        /\ budget.runs = 2

\* C7: the per-task manual send can go out to an assignee of any task not
\* Completed, whatever reminderSent is, and a step that creates manual
\* reminders changes no task document
C7_ManualSendBypassesGuard ==
    /\ [](\A t \in TaskIds, u \in Users :
            (budget.ops < MaxOps /\ tasks[t].status # "Completed"
                /\ u \in tasks[t].assignedTo /\ email[u])
            => ENABLED (sendTaskReminder(t, TRUE) /\ manual'[t][u] = manual[t][u] + 1))
    /\ [][manual' # manual => tasks' = tasks]_vars

\* two manual reminders have gone to an assignee of a task that is marked
C7_Witness ==
    \E t \in TaskIds, u \in Users :
        /\ tasks[t].reminderSent
        /\ tasks[t].reminderSentAt # NoDate
        /\ manual[t][u] = 2

\* C8: the fan-out of a task calls Notification.create once for every assignee
\* that has an email, whatever fails for the others, and the invocation then
\* goes on with the write of the flag or with the next selected task
C8_Independent ==
    [][\A s \in ScanIds :
         (scans[s].pc = "dispatch" /\ LoopStep(s)) =>
            LET job == Head(scans[s].queue)
            IN /\ \A u \in Users :
                    tries'[job.id][u] =
                        tries[job.id][u] + (IF u \in job.assignedTo /\ email[u] THEN 1 ELSE 0)
               /\ \/ scans'[s].pc = "mark" /\ scans'[s].queue = scans[s].queue
                  \/ scans'[s].pc = "dispatch" /\ scans'[s].queue = Tail(scans[s].queue)
                  \/ scans'[s].pc = "idle" /\ Len(scans[s].queue) = 1 /\ result'.success]_vars

\* in one scan, the first assignee's notification failed, the second got
\* notification and email, and the scan is at the second task
C8_Witness ==
    \E s \in ScanIds :
        /\ budget.runs = 1
        /\ scans[s].pc = "dispatch"
        /\ Head(scans[s].queue).id = 2
        /\ tries[1][1] = 1 /\ notifs[1][1] = 0
        /\ tries[1][2] = 1 /\ mails[1][2] = 1

\* C9: a scan that ended in the outer catch leaves the process alive and the
\* hourly schedule active, with a tick able to start the next scan
C9_SchedulerSurvives ==
    ~result.success =>
        /\ proc.alive
        /\ proc.scheduled
        /\ (budget.runs < MaxRuns /\ (\E s \in ScanIds : scans[s].pc = "idle"))
              => ENABLED (\E s \in ScanIds : CronTick(s))
        /\ \A s \in ScanIds : scans[s].pc = "idle" => scans[s] = IdleScan

\* a scan was aborted by the write of the flag (a notification exists for a
\* task that is not marked) and another invocation has started since
C9_Witness ==
    /\ ~result.success
    /\ budget.runs = 2
    /\ \E s \in ScanIds, t \in TaskIds, u \in Users :
         /\ scans[s].pc = "dispatch"
         /\ t \in Selected(scans[s])
         /\ notifs[t][u] = 1
         /\ ~tasks[t].reminderSent

\* the calendar day of an instant, and the days with a completion
DayOf(t) == t \div DayLen
DaysDone(list) == {DayOf(list[i].updatedAt) : i \in {j \in DOMAIN list : list[j].status = "Completed"}}

\* the number of consecutive days with a completion, ending at and including today
ConsecutiveDays(list, today) ==
    LET done == DaysDone(list)
    IN CHOOSE k \in 0..Len(list) :
          /\ today - k \notin done
          /\ \A j \in 0..(k - 1) : today - j \in done

C11_StreakCapped ==
    /\ stats.pc = "done" => stats.currentStreak <= StreakCap
    /\ \A i \in DOMAIN team.members : team.members[i].currentStreak <= StreakCap

\* C12: the score of the personal statistics and the score of every member of
\* the team statistics are integers from 0 to 100
C12_ScoreBounded ==
    /\ stats.pc = "done" => stats.productivityScore \in 0..100
    /\ \A i \in DOMAIN team.members : team.members[i].productivityScore \in 0..100

\* the team statistics rank a member with a completion on each of the last
\* 400 days, streak at the cap, and a member with one task completed on time
C12_Witness ==
    /\ team.via = "controller"
    /\ team.teamSize = 2
    /\ team.members[1].currentStreak = StreakCap /\ team.members[1].productivityScore = 60
    /\ team.members[2].onTimeRate = 100 /\ team.members[2].productivityScore > 0

\* C13: for a user without tasks the statistics are computed, and on-time
\* rate, checklist rate, streak, overdue tasks and score are all 0
C13_ZeroTasks ==
    (stats.pc = "done" /\ allTasks = <<>>) =>
        /\ stats.onTimeRate = 0
        /\ stats.checklistRate = 0
        /\ stats.currentStreak = 0
        /\ stats.overdueTasks = 0
        /\ stats.productivityScore = 0

\* the statistics of a user without tasks have been answered, with an empty
\* bucket for each of the two weeks of the period
C13_Witness ==
    /\ stats.pc = "done"
    /\ allTasks = <<>>
    /\ stats.period = 2 * WeekDays
    /\ stats.weeklyTrend = <<[completed |-> 0, created |-> 0], [completed |-> 0, created |-> 0]>>

\* the indices of the Completed tasks, and of those completed on time: with a
\* dueDate and updatedAt <= dueDate
Done(list) == {i \in DOMAIN list : list[i].status = "Completed"}
DoneOnTime(list) ==
    {i \in Done(list) : list[i].dueDate # NoDate /\ list[i].updatedAt <= list[i].dueDate[1]}

\* C14: the score is min(100, round(min(n/10, 1)*20 + (c/max(n, 1))*25
\* + onTimeRate*0.25 + min(streak/7, 1)*15 + checklistRate*0.15)) for n tasks
\* of which c are Completed, the two rates being the rounded percentages of
\* the response; the sum is written over the denominator 140*max(n, 1); the
\* example of ten tasks scores 73
C14_ScoreFormula ==
    stats.pc = "done" =>
        LET n == Len(allTasks)
            m == IF n > 1 THEN n ELSE 1
            c == Cardinality(Done(allTasks))
            vol == IF n < 10 THEN n ELSE 10
            wk == IF stats.currentStreak < 7 THEN stats.currentStreak ELSE 7
            sum == 140 * m * 2 * vol + 140 * 25 * c + 35 * m * stats.onTimeRate
                   + 20 * m * 15 * wk + 21 * m * stats.checklistRate
            rounded == (2 * sum + 140 * m) \div (2 * 140 * m)
        IN /\ stats.productivityScore = IF rounded < 100 THEN rounded ELSE 100
           /\ allTasks = ExampleHistory(now) => stats.productivityScore = 73

\* the example: 10 tasks, 6 Completed, 5 on time (83%), 15 of 20 checklist
\* items (75%), streak 3, score 73
C14_Witness ==
    /\ stats.pc = "done"
    /\ Len(allTasks) = 10
    /\ Cardinality(Done(allTasks)) = 6
    /\ Cardinality(DoneOnTime(allTasks)) = 5
    /\ stats.onTimeRate = 83
    /\ stats.checklistRate = 75
    /\ stats.currentStreak = 3
    /\ stats.productivityScore = 73

OnTimeDocs == {d \in ScoreDocs(now) : d.status = "Completed" /\ d.dueDate # NoDate
                                       /\ d.updatedAt <= d.dueDate[1]}

\* C16: the on-time rate of a history with one more on-time Completed task is
\* not below the on-time rate answered for the history, and neither is its
\* on-time weight
C16_OnTimeMonotone ==
    stats.pc = "done" =>
        \A d \in OnTimeDocs :
            LET more == Append(allTasks, d)
                w == OnTimeWeight(allTasks)
                v == OnTimeWeight(more)
            IN /\ OnTimeRate(more) >= stats.onTimeRate
               /\ v[1] * w[2] >= w[1] * v[2]

\* a history with one late completion and one on time answers 50; with one
\* more on-time completion the rate is 67
C16_Witness ==
    /\ stats.pc = "done"
    /\ stats.onTimeRate = 50
    /\ Cardinality(Done(allTasks)) = 2
    /\ \E i \in Done(allTasks) : allTasks[i].dueDate # NoDate /\ i \notin DoneOnTime(allTasks)
    /\ \E d \in OnTimeDocs : OnTimeRate(Append(allTasks, d)) = 67

\* C17: the members of the team response are in non-increasing order of
\* score, members of equal score in the order of the member query, and every
\* member of the query is in the list once
C17_Ranking ==
    team.via # "none" =>
        /\ Len(team.members) = Len(orgTasks)
        /\ {team.members[i].user : i \in DOMAIN team.members} = DOMAIN orgTasks
        /\ \A i, j \in DOMAIN team.members :
              i < j =>
                 /\ team.members[i].productivityScore >= team.members[j].productivityScore
                 /\ team.members[i].productivityScore = team.members[j].productivityScore
                       => team.members[i].user < team.members[j].user

\* three members: the second of the query has the highest score and comes
\* first, the first and the third have equal scores and keep their order
C17_Witness ==
    /\ team.via = "controller"
    /\ team.teamSize = 3
    /\ <<team.members[1].user, team.members[2].user, team.members[3].user>> = <<2, 1, 3>>
    /\ team.members[1].productivityScore > team.members[2].productivityScore
    /\ team.members[2].productivityScore = team.members[3].productivityScore

\* C18: the two averages of the team response are the means of the members'
\* scores and on-time rates rounded to the nearest integer, the two totals are
\* the sums of the members' completedInPeriod and overdueTasks, and a team
\* without members has all four 0
C18_TeamAverages ==
    team.via # "none" =>
        LET ms == team.members
            k == Len(ms)
            avg == team.teamAverage
            scores == SumSeq([i \in DOMAIN ms |-> ms[i].productivityScore])
            rates == SumSeq([i \in DOMAIN ms |-> ms[i].onTimeRate])
        IN /\ team.teamSize = Len(orgTasks) /\ k = Len(orgTasks)
           /\ avg.totalCompleted = SumSeq([i \in DOMAIN ms |-> ms[i].completedInPeriod])
           /\ avg.totalOverdue = SumSeq([i \in DOMAIN ms |-> ms[i].overdueTasks])
           /\ 2 * k * avg.avgProductivityScore <= 2 * scores + k
           /\ k > 0 => 2 * k * avg.avgProductivityScore > 2 * scores - k
           /\ 2 * k * avg.avgOnTimeRate <= 2 * rates + k
           /\ k > 0 => 2 * k * avg.avgOnTimeRate > 2 * rates - k
           /\ k = 0 => avg = [avgProductivityScore |-> 0, totalCompleted |-> 0,
                              avgOnTimeRate |-> 0, totalOverdue |-> 0]

\* a team of two in the export: the scores sum to an odd number, so the mean
\* is rounded up, one member has an overdue task and one a completion in the period
C18_Witness ==
    /\ team.via = "report"
    /\ team.teamSize = 2
    /\ (team.members[1].productivityScore + team.members[2].productivityScore) % 2 = 1
    /\ 2 * team.teamAverage.avgProductivityScore
          = team.members[1].productivityScore + team.members[2].productivityScore + 1
    /\ team.teamAverage.totalOverdue = 1
    /\ team.teamAverage.totalCompleted = 1

\* the range the buckets of the weekly trend cover: from the start of the
\* oldest bucket to the end of today
Covered(t) ==
    /\ t >= WeekStart(now, WeeksToShow(stats.period) - 1)
    /\ t <= WeekEnd(now, 0)

\* C19 as stated: the trend has ceil(period / 7) buckets, the completed
\* counts of the buckets sum to the number of Completed tasks updated in the
\* covered range, and the created counts to the number of tasks created in it
C19_WeeklyPartition ==
    stats.pc \in {"loop", "done"} =>
        /\ Len(stats.weeklyTrend) = (stats.period + 6) \div 7
        /\ SumSeq([j \in DOMAIN stats.weeklyTrend |-> stats.weeklyTrend[j].completed])
             = Cardinality({i \in Done(allTasks) : Covered(allTasks[i].updatedAt)})
        /\ SumSeq([j \in DOMAIN stats.weeklyTrend |-> stats.weeklyTrend[j].created])
             = Cardinality({i \in DOMAIN allTasks : Covered(allTasks[i].createdAt)})

\* the tasks that are not Completed, due within the next 24 hours and not
\* marked, at the present instant
DueSoon ==
    {t \in TaskIds :
        /\ tasks[t].status # "Completed"
        /\ tasks[t].dueDate # NoDate
        /\ now < tasks[t].dueDate[1]
        /\ tasks[t].dueDate[1] <= now + TwentyFourHours
        /\ ~tasks[t].reminderSent}

\* C20: a scan started by the manual trigger selects the tasks the scheduled
\* scan selects; when it ends the request is answered with the result of the
\* scan, whose tasksProcessed is the number of tasks the query returned; a
\* refused request starts no scan and changes nothing of the scheduler
C20_ManualTrigger ==
    [][/\ \A s \in ScanIds :
            (scans[s].pc = "idle" /\ scans'[s].pc # "idle" /\ scans'[s].caller = "http") =>
                /\ Selected(scans'[s]) = DueSoon
                /\ scans'[s].found = Cardinality(DueSoon)
                /\ budget'.runs = budget.runs + 1
       /\ \A s \in ScanIds :
            (scans[s].pc # "idle" /\ scans[s].caller = "http" /\ scans'[s].pc = "idle") =>
                /\ http' = Response("ok", 0)
                /\ result'.success => result'.tasksProcessed = scans[s].found
       /\ (budget'.runs > budget.runs /\ scans' = scans /\ result'.success) =>
                result'.tasksProcessed = 0 /\ DueSoon = {}
       /\ (http'.code = "forbidden" /\ http' # http) =>
                UNCHANGED <<scans, budget, tasks, result, tries, notifs, mails, proc>>]_vars

\* the manual trigger was the only request: its scan found one task, every
\* reminder for it failed, the task is not marked, and the answer carries
\* tasksProcessed = 1
C20_Witness ==
    /\ budget = [runs |-> 1, ops |-> 0]
    /\ http = Response("ok", 0)
    /\ NoScan
    /\ result = [success |-> TRUE, tasksProcessed |-> 1]
    /\ \A t \in TaskIds : ~tasks[t].reminderSent
    /\ \E t \in TaskIds : \A u \in Users : tries[t][u] = 1 /\ notifs[t][u] = 0 /\ mails[t][u] = 0

\* the assignees that a step of sendTaskReminder both notified and mailed
Reached(t) ==
    {u \in Users : manual'[t][u] > manual[t][u] /\ manualMails'[t][u] > manualMails[t][u]}

\* C21 as stated: the sentCount answered by the per-task manual send is the
\* number of assignees for whom the notification was created and the email
\* was delivered
C21_SentCountIsSuccessCount ==
    [][\A t \in TaskIds :
         (sendTaskReminder(t, TRUE) /\ http'.code = "ok")
            => http'.sentCount = Cardinality(Reached(t))]_vars

\* the fields of a task document that the scan does not own
ForeignFields == {"status", "dueDate", "assignedTo", "todoChecklist", "progress"}

C23_PersonalEqualsTeam ==
    stats.pc = "done"
        => LET member == MemberStats(1, allTasks, now, stats.period)
           IN /\ stats.productivityScore = member.productivityScore
              /\ stats.onTimeRate = member.onTimeRate
              /\ stats.currentStreak = member.currentStreak
              /\ stats.overdueTasks = member.overdueTasks

\* the two answers carry the same period, size, members in the same order and averages
SameTeam(a, b) ==
    /\ a.period = b.period
    /\ a.teamSize = b.teamSize
    /\ a.members = b.members
    /\ a.teamAverage = b.teamAverage

\* C24: the answer of either team aggregation is the answer the other one
\* gives for the same members, tasks, time and period
C24_TeamAggregationsAgree ==
    /\ team.via = "controller" => SameTeam(team, ReportResponse(now, team.period))
    /\ team.via = "report" => SameTeam(team, TeamResponse(now, team.period))

\* the export has answered for a team of three with a member whose checklist
\* rate is not a whole number, ranked behind a member of higher score
C24_Witness ==
    /\ team.via = "report"
    /\ team.teamSize = MaxMembers
    /\ orgTasks[team.members[2].user] = RoundingHistory(now)
    /\ team.members[1].productivityScore > team.members[2].productivityScore
    /\ team.members[2].productivityScore > team.members[3].productivityScore

\* C25 as stated: with scans that do not overlap, no assignee has more than one
\* in-app reminder of the scans for one task
C25_OneScheduledNotification ==
    \A t \in TaskIds, u \in Users : notifs[t][u] <= 1

\* no assignee of task t has an email: assignedTo is empty or every assignee lacks one
Unnotifiable(t) == \A u \in tasks[t].assignedTo : ~email[u]

\* the step starts an invocation whose query did not throw
QueryRan == budget'.runs # budget.runs /\ ~(scans' = scans /\ ~result'.success)

\* C26: a task without a notifiable assignee gets no notification and no email
\* and stays unmarked; every invocation whose query runs while the task is
\* eligible selects it and counts it in the number of tasks found, which is the
\* tasksProcessed of its result
C26_UnnotifiableNeverMarked ==
    [][\A t \in TaskIds :
         Unnotifiable(t) =>
            /\ ~tasks'[t].reminderSent
            /\ tasks'[t].reminderSentAt = NoDate
            /\ \A u \in Users : notifs'[t][u] = 0 /\ mails'[t][u] = 0
            /\ (Eligible(tasks[t], now) /\ QueryRan)
                  => \E s \in ScanIds :
                        /\ scans[s].pc = "idle" /\ scans'[s].pc = "dispatch"
                        /\ t \in Selected(scans'[s])
                        /\ scans'[s].found = Len(scans'[s].queue)
            /\ \A s \in ScanIds :
                  (scans[s].pc # "idle" /\ scans'[s].pc = "idle" /\ result'.success)
                      => result'.tasksProcessed = scans[s].found]_vars

\* the first scan has ended and counted the task, which has an assignee
\* without email only; the second scan, started at the same time, has selected
\* the task again
C26_Witness ==
    \E s \in ScanIds, t \in TaskIds :
        /\ now = 0
        /\ budget.runs = MaxRuns
        /\ result.success /\ result.tasksProcessed = 1
        /\ \A r \in ScanIds \ {s} : scans[r].pc = "idle"
        /\ scans[s].pc = "dispatch"
        /\ Selected(scans[s]) = {t}
        /\ tasks[t].assignedTo # {}
        /\ Unnotifiable(t)
        /\ ~tasks[t].reminderSent

\* some assignee of task t was notified and mailed by the first fan-out for t
Delivered(t) ==
    (\E u \in Users : tries[t][u] > 0) => \E u \in Users : mails[t][u] > 0

\* task t is in the window (now, now + 24h], not Completed, not yet marked,
\* with an assignee that has an email, a scan interval or more before its dueDate
EntersInTime(t) ==
    /\ Eligible(tasks[t], now)
    /\ ~Unnotifiable(t)
    /\ tasks[t].dueDate[1] - now >= ScanInterval

MarkedBeforeDue(t) ==
    /\ tasks[t].reminderSent
    /\ tasks[t].reminderSentAt # NoDate
    /\ tasks[t].reminderSentAt[1] < tasks[t].dueDate[1]

NothingSent == manual' = manual /\ manualMails' = manualMails

\* C28: sendTaskReminder answers forbidden to a caller that is not an admin,
\* not-found for an unknown id and bad-request for a Completed task, each time
\* without a notification or an email; no manual reminder goes out for a task
\* that is Completed
C28_ManualSendRejects ==
    [][/\ \A t \in TaskIds \cup {NoTask}, admin \in BOOLEAN :
            sendTaskReminder(t, admin) =>
                /\ ~admin => (http'.code = "forbidden" /\ NothingSent)
                /\ (admin /\ t = NoTask) => (http'.code = "notFound" /\ NothingSent)
                /\ (admin /\ t # NoTask /\ tasks[t].status = "Completed")
                      => (http'.code = "badRequest" /\ NothingSent)
       /\ \A t \in TaskIds :
            (manual'[t] # manual[t] \/ manualMails'[t] # manualMails[t])
                => tasks[t].status # "Completed"]_vars

\* the manual send for a Completed task with two assignees that have an email
\* was answered with bad-request and nobody was notified
C28_Witness ==
    \E t \in TaskIds :
        /\ http.code = "badRequest"
        /\ tasks[t].status = "Completed"
        /\ tasks[t].assignedTo = Users
        /\ \A u \in Users : email[u] /\ manual[t][u] = 0 /\ manualMails[t][u] = 0

Appended(t) ==
    SubSeq(tasks'[t].activityLog, Len(tasks[t].activityLog) + 1, Len(tasks'[t].activityLog))

\* C30 as stated: every status_changed entry that a step appends to the
\* activityLog of a task has for oldValue the status of the task before the
\* step and for newValue its status after the step, and the two differ
C30_LogMatchesStatus ==
    [][\A t \in TaskIds :
         \A i \in DOMAIN Appended(t) :
            /\ Appended(t)[i].oldValue = tasks[t].status
            /\ Appended(t)[i].newValue = tasks'[t].status
            /\ tasks'[t].status # tasks[t].status]_vars
====
